---- MODULE Spec2Model ----
(***************************************************************************)
(* Model of pkg/infra/filestorage/db_filestorage.go: a virtual file        *)
(* system kept in two SQL tables, "file" and "file_meta".                  *)
(*                                                                         *)
(* Strings are sequences of character codes (ASCII), so that LOWER, LIKE,  *)
(* strings.Split and the byte-wise ordering of paths are computed and not  *)
(* assumed.  Byte slices are sequences of numbers.                         *)
(***************************************************************************)
EXTENDS Integers, Sequences, FiniteSets, TLC

VARIABLES
    files,      \* rows of table "file"
    meta,       \* rows of table "file_meta"
    clock,      \* the last reading of time.Now()
    last,       \* the call that completed last, with what it returned
    listing,    \* a client paging through ListFiles
    pc,         \* concurrent sessions: position of each session
    loc,        \* concurrent sessions: locals of each session
    history     \* concurrent sessions: versions of a path that were committed

vars == <<files, meta, clock, last, listing, pc, loc, history>>

----------------------------------------------------------------------------
(* Characters and strings *)

Ascii ==
    [ pct |-> 37, dash |-> 45, dot |-> 46, slash |-> 47, one |-> 49, two |-> 50,
      A |-> 65, B |-> 66, M |-> 77, X |-> 88, Y |-> 89,
      a |-> 97, b |-> 98, c |-> 99, f |-> 102, m |-> 109,
      x |-> 120, y |-> 121, z |-> 122, und |-> 95 ]

\* api.go: the path delimiter "/" (not in src/; the spec's "path delimiter")
Delimiter == <<Ascii.slash>>

\* api.go: the reserved directory-marker segment (not in src/); a short
\* lower-case stand-in for the reserved name
directoryMarker == <<Ascii.dot, Ascii.m>>

\* strings.ToLower on one character and on a string
LowerChar(ch) == IF ch >= 65 /\ ch <= 90 THEN ch + 32 ELSE ch

ToLower(s) == [i \in 1..Len(s) |-> LowerChar(s[i])]

\* fmt.Sprintf("%s%s%s", a, b, c) and fmt.Sprintf("%s%s", a, b)
Sprintf3(a, b, c) == a \o b \o c

Sprintf2(a, b) == a \o b

\* byte-wise string comparison a < b, as ORDER BY path and "path > ?" compare
StrLess(a, b) ==
    \E i \in 1..(Len(b)) :
        /\ \A j \in 1..(i - 1) : j <= Len(a) /\ a[j] = b[j]
        /\ \/ i = Len(a) + 1
           \/ i <= Len(a) /\ a[i] < b[i]

\* SQL: s LIKE pat, where % matches any run of characters and _ exactly one
RECURSIVE Like(_, _)
Like(s, pat) ==
    IF pat = <<>> THEN s = <<>>
    ELSE IF Head(pat) = Ascii.pct
         THEN \E k \in 0..Len(s) : Like(SubSeq(s, k + 1, Len(s)), Tail(pat))
    ELSE IF s = <<>> THEN FALSE
    ELSE /\ (Head(pat) = Ascii.und \/ Head(pat) = Head(s))
         /\ Like(Tail(s), Tail(pat))

\* strings.Split(s, Delimiter): the segments of s, always at least one
RECURSIVE Split(_)
Split(s) ==
    IF \A i \in 1..Len(s) : s[i] # Ascii.slash THEN <<s>>
    ELSE LET k == CHOOSE i \in 1..Len(s) :
                      s[i] = Ascii.slash /\ \A j \in 1..(i - 1) : s[j] # Ascii.slash
         IN <<SubSeq(s, 1, k - 1)>> \o Split(SubSeq(s, k + 1, Len(s)))

\* strings.Join(parts, Delimiter)
RECURSIVE Join(_)
Join(parts) ==
    IF parts = <<>> THEN <<>>
    ELSE IF Len(parts) = 1 THEN parts[1]
    ELSE parts[1] \o Delimiter \o Join(Tail(parts))

\* utils.go getParentFolderPath (not in src/): the path with its final
\* segment removed; a path of one segment has the empty (root) parent
getParentFolderPath(path) ==
    LET parts == Split(path) IN Join(SubSeq(parts, 1, Len(parts) - 1))

\* utils.go getName (not in src/): the final segment of the path
getName(path) == LET parts == Split(path) IN parts[Len(parts)]

\* the elements of a finite set of strings in ascending byte-wise order
RECURSIVE SortStrings(_)
SortStrings(S) ==
    IF S = {} THEN <<>>
    ELSE LET lo == CHOOSE s \in S : \A t \in S \ {s} : StrLess(s, t)
         IN <<lo>> \o SortStrings(S \ {lo})

Range(seq) == {seq[i] : i \in 1..Len(seq)}

IsPrefix(p, s) == Len(p) <= Len(s) /\ SubSeq(s, 1, Len(p)) = p

\* every ordering of a finite set: the orders in which Go may range over a map
Orderings(S) ==
    {o \in [1..Cardinality(S) -> S] : \A i, j \in 1..Cardinality(S) : o[i] = o[j] => i = j}

----------------------------------------------------------------------------
(* The record store: errors, sessions and xorm statements *)

Nil == "nil"

StorageFailure == "storage failure"

Panic == "panic: index out of range"

\* sess.Table("file").Where("LOWER(path) = ?", strings.ToLower(p))
WhereLowerPath(f, p) == {r \in f : ToLower(r.path) = ToLower(p)}

\* sess.Table("file_meta").Where("path = ?", strings.ToLower(p))
WhereMetaPath(m, p) == {r \in m : r.path = ToLower(p)}

\* sess.Table("file_meta").Where("path = ? AND key = ?", strings.ToLower(p), key)
WhereMetaPathKey(m, p, key) == {r \in m : r.path = ToLower(p) /\ r.key = key}

\* sess.Update(bean) on a row of "file": xorm writes the non-zero fields of
\* the bean only; an empty string, an empty slice, 0 and the zero time are
\* left out of the SET clause and the column keeps its value
XormUpdateFile(row, bean) ==
    [ path               |-> IF bean.path = <<>> THEN row.path ELSE bean.path,
      parent_folder_path |-> IF bean.parent_folder_path = <<>>
                             THEN row.parent_folder_path ELSE bean.parent_folder_path,
      contents           |-> IF bean.contents = <<>> THEN row.contents ELSE bean.contents,
      updated            |-> IF bean.updated = 0 THEN row.updated ELSE bean.updated,
      created            |-> IF bean.created = 0 THEN row.created ELSE bean.created,
      size               |-> IF bean.size = 0 THEN row.size ELSE bean.size,
      mime_type          |-> IF bean.mime_type = "" THEN row.mime_type ELSE bean.mime_type ]

\* sess.Update(bean) on a row of "file_meta", as XormUpdateFile
XormUpdateMeta(row, bean) ==
    [ path    |-> IF bean.path = <<>> THEN row.path ELSE bean.path,
      key     |-> IF bean.key = "" THEN row.key ELSE bean.key,
      value   |-> IF bean.value = "" THEN row.value ELSE bean.value,
      updated |-> IF bean.updated = 0 THEN row.updated ELSE bean.updated,
      created |-> IF bean.created = 0 THEN row.created ELSE bean.created ]

----------------------------------------------------------------------------
(* Get *)

NoFile == [found |-> FALSE]

\* lines 79-83: the property map built from the rows found; of two rows with
\* the same key, the one ranged over last wins
PropertyMaps(rows) ==
    LET keys == {r.key : r \in rows}
    IN {pm \in [keys -> {r.value : r \in rows}] :
            \A k \in keys : \E r \in rows : r.key = k /\ r.value = pm[k]}

\* lines 85-96: the File built from a file row and a property map
MakeFile(table, metaProperties) ==
    [ found      |-> TRUE,
      Contents   |-> table.contents,
      Name       |-> getName(table.path),
      FullPath   |-> table.path,
      Created    |-> table.created,
      Properties |-> metaProperties,
      Modified   |-> table.updated,
      Size       |-> table.size,
      MimeType   |-> table.mime_type ]

\* dbFileStorage.Get: the (result, err) pairs it may return.  fail names the
\* statement the store fails: 1 the file lookup, 2 the property query
Get(f, m, filePath, fail) ==
    LET found == WhereLowerPath(f, filePath)
    IN IF fail = 1 \/ found = {}
       THEN {[result |-> NoFile, err |-> Nil]}
       ELSE IF fail = 2
       THEN {[result |-> NoFile, err |-> StorageFailure]}
       ELSE {[result |-> MakeFile(table, pm), err |-> Nil] :
                table \in found, pm \in PropertyMaps(WhereMetaPath(m, filePath))}

----------------------------------------------------------------------------
(* Delete *)

\* Delete with lines 107-109, the return on a path without file row, left
\* out: the two DELETE statements run whether or not a row was found
DeleteNoExistsCheck(f, m, filePath, fail) ==
    LET found == WhereLowerPath(f, filePath)
    IN IF fail = 1
       THEN [files |-> f, meta |-> m, err |-> Nil]
       ELSE IF fail = 2
       THEN [files |-> f, meta |-> m, err |-> StorageFailure]
       ELSE IF fail = 3
       THEN [files |-> f \ found, meta |-> m, err |-> StorageFailure]
       ELSE [files |-> f \ found, meta |-> m \ WhereMetaPath(m, filePath), err |-> Nil]

\* dbFileStorage.Delete: the tables and the error after the call.  The
\* session is not transactional: each statement is committed as it runs.
\* fail: 1 the file lookup, 2 the file delete, 3 the property delete
Delete(f, m, filePath, fail) ==
    LET found == WhereLowerPath(f, filePath)
    IN IF fail = 1 \/ found = {}
       THEN [files |-> f, meta |-> m, err |-> Nil]
       ELSE IF fail = 2
       THEN [files |-> f, meta |-> m, err |-> StorageFailure]
       ELSE IF fail = 3
       THEN [files |-> f \ found, meta |-> m, err |-> StorageFailure]
       ELSE [files |-> f \ found, meta |-> m \ WhereMetaPath(m, filePath), err |-> Nil]

----------------------------------------------------------------------------
(* Upsert *)

\* writeFile with line 143, existing.MimeType = cmd.MimeType, moved out of
\* the test of cmd.Contents: the mime type of the command is always taken
writeFileMimeAlways(f, cmd, now, exists, existing) ==
    LET bean ==
            IF cmd.Contents.present
            THEN [existing EXCEPT !.updated = now,
                                  !.contents = cmd.Contents.bytes,
                                  !.mime_type = cmd.MimeType,
                                  !.size = Len(cmd.Contents.bytes)]
            ELSE [existing EXCEPT !.updated = now, !.mime_type = cmd.MimeType]
        contentsToInsert == IF cmd.Contents.present THEN cmd.Contents.bytes ELSE <<>>
        file == [ path               |-> cmd.Path,
                  parent_folder_path |-> getParentFolderPath(cmd.Path),
                  contents           |-> contentsToInsert,
                  mime_type          |-> cmd.MimeType,
                  size               |-> Len(contentsToInsert),
                  updated            |-> now,
                  created            |-> now ]
    IN IF exists
       THEN (f \ WhereLowerPath(f, cmd.Path))
               \cup {XormUpdateFile(r, bean) : r \in WhereLowerPath(f, cmd.Path)}
       ELSE f \cup {file}

\* lines 138-170: the "file" table after the update (exists) or the insert
\* (not exists), given what the lookup of lines 132-133 returned
writeFile(f, cmd, now, exists, existing) ==
    LET bean ==
            IF cmd.Contents.present
            THEN [existing EXCEPT !.updated = now,
                                  !.contents = cmd.Contents.bytes,
                                  !.mime_type = cmd.MimeType,
                                  !.size = Len(cmd.Contents.bytes)]
            ELSE [existing EXCEPT !.updated = now]
        contentsToInsert == IF cmd.Contents.present THEN cmd.Contents.bytes ELSE <<>>
        file == [ path               |-> cmd.Path,
                  parent_folder_path |-> getParentFolderPath(cmd.Path),
                  contents           |-> contentsToInsert,
                  mime_type          |-> cmd.MimeType,
                  size               |-> Len(contentsToInsert),
                  updated            |-> now,
                  created            |-> now ]
    IN IF exists
       THEN (f \ WhereLowerPath(f, cmd.Path))
               \cup {XormUpdateFile(r, bean) : r \in WhereLowerPath(f, cmd.Path)}
       ELSE f \cup {file}

\* lines 132-170: the lookup and the write, one table per row the lookup
\* may have returned
upsertFile(f, cmd, now) ==
    LET found == WhereLowerPath(f, cmd.Path)
    IN IF found # {}
       THEN {writeFile(f, cmd, now, TRUE, existing) : existing \in found}
       ELSE {writeFile(f, cmd, now, FALSE, <<>>)}

\* upsertProperty: the "file_meta" table after one key is upserted
upsertProperty(m, now, path, key, val) ==
    LET found == WhereMetaPathKey(m, path, key)
        existing == CHOOSE r \in found : TRUE
        bean == [existing EXCEPT !.updated = now, !.value = val]
    IN IF found # {}
       THEN (m \ found) \cup {XormUpdateMeta(r, bean) : r \in found}
       ELSE m \cup {[ path    |-> ToLower(path),
                      key     |-> key,
                      value   |-> val,
                      updated |-> now,
                      created |-> now ]}

\* upsertProperties: the keys are upserted in the order the map is ranged
\* over; failAt > 0 is the position of the key whose upsert the store fails
RECURSIVE upsertProperties(_, _, _, _, _)
upsertProperties(m, now, cmd, order, failAt) ==
    IF order = <<>> THEN [meta |-> m, err |-> Nil]
    ELSE IF failAt = 1 THEN [meta |-> m, err |-> StorageFailure]
    ELSE upsertProperties(upsertProperty(m, now, cmd.Path, Head(order),
                                         cmd.Properties[Head(order)]),
                          now, cmd, Tail(order), failAt - 1)

\* Upsert with line 174, sess.Rollback(), left out: what the transaction has
\* written so far stays
UpsertNoRollback(f, m, cmd, now, fail, order) ==
    IF fail = 1 \/ fail = 2
    THEN {[files |-> f, meta |-> m, err |-> StorageFailure]}
    ELSE {LET p == upsertProperties(m, now, cmd, order, fail - 2)
          IN [files |-> f2, meta |-> p.meta, err |-> p.err] : f2 \in upsertFile(f, cmd, now)}

\* dbFileStorage.Upsert: the tables and the error after the call, one
\* transaction.  fail: 1 the file lookup, 2 the file update or insert,
\* 2 + i the upsert of the i-th property in the order the map is ranged over
Upsert(f, m, cmd, now, fail, order) ==
    IF fail = 1 \/ fail = 2
    THEN {[files |-> f, meta |-> m, err |-> StorageFailure]}
    ELSE {LET p == upsertProperties(m, now, cmd, order, fail - 2)
          IN IF p.err # Nil
             THEN [files |-> f, meta |-> m, err |-> p.err]
             ELSE [files |-> f2, meta |-> p.meta, err |-> Nil] :
          f2 \in upsertFile(f, cmd, now)}

----------------------------------------------------------------------------
(* CreateFolder and DeleteFolder *)

\* CreateFolder with the marker looked up by "path = ?", in the casing given
CreateFolderCaseSensitive(f, parentFolderPath, folderName, now, fail) ==
    LET directoryMarkerParentPath == Sprintf3(parentFolderPath, Delimiter, folderName)
        directoryMarkerPath == Sprintf3(directoryMarkerParentPath, Delimiter, directoryMarker)
        file == [ path               |-> directoryMarkerPath,
                  parent_folder_path |-> directoryMarkerParentPath,
                  contents           |-> <<>>,
                  mime_type          |-> "",
                  size               |-> 0,
                  updated            |-> now,
                  created            |-> now ]
    IN IF fail = 1 THEN [files |-> f, err |-> StorageFailure]
       ELSE IF {r \in f : r.path = directoryMarkerPath} # {} THEN [files |-> f, err |-> Nil]
       ELSE IF fail = 2 THEN [files |-> f, err |-> StorageFailure]
       ELSE [files |-> f \cup {file}, err |-> Nil]

\* dbFileStorage.CreateFolder.  fail: 1 the marker lookup, 2 the insert
CreateFolder(f, parentFolderPath, folderName, now, fail) ==
    LET directoryMarkerParentPath == Sprintf3(parentFolderPath, Delimiter, folderName)
        directoryMarkerPath == Sprintf3(directoryMarkerParentPath, Delimiter, directoryMarker)
        file == [ path               |-> directoryMarkerPath,
                  parent_folder_path |-> directoryMarkerParentPath,
                  contents           |-> <<>>,
                  mime_type          |-> "",
                  size               |-> 0,
                  updated            |-> now,
                  created            |-> now ]
    IN IF fail = 1 THEN [files |-> f, err |-> StorageFailure]
       ELSE IF WhereLowerPath(f, directoryMarkerPath) # {} THEN [files |-> f, err |-> Nil]
       ELSE IF fail = 2 THEN [files |-> f, err |-> StorageFailure]
       ELSE [files |-> f \cup {file}, err |-> Nil]

\* DeleteFolder that deletes the marker and every row below the folder
DeleteFolderCascade(f, folderPath, fail) ==
    LET directoryMarkerPath == Sprintf3(folderPath, Delimiter, directoryMarker)
        found == WhereLowerPath(f, directoryMarkerPath)
        below == {r \in f : IsPrefix(ToLower(Sprintf2(folderPath, Delimiter)), ToLower(r.path))}
    IN IF fail = 1 THEN [files |-> f, err |-> StorageFailure]
       ELSE IF found = {} THEN [files |-> f, err |-> Nil]
       ELSE IF fail = 2 THEN [files |-> f, err |-> StorageFailure]
       ELSE [files |-> f \ below, err |-> Nil]

\* dbFileStorage.DeleteFolder.  fail: 1 the marker lookup, 2 the delete
DeleteFolder(f, folderPath, fail) ==
    LET directoryMarkerPath == Sprintf3(folderPath, Delimiter, directoryMarker)
        found == WhereLowerPath(f, directoryMarkerPath)
    IN IF fail = 1 THEN [files |-> f, err |-> StorageFailure]
       ELSE IF found = {} THEN [files |-> f, err |-> Nil]
       ELSE IF fail = 2 THEN [files |-> f, err |-> StorageFailure]
       ELSE [files |-> f \ found, err |-> Nil]

----------------------------------------------------------------------------
(* ListFiles *)

\* ORDER BY path: the rows of a set in ascending order of their path
RECURSIVE OrderByPath(_)
OrderByPath(rows) ==
    IF rows = {} THEN <<>>
    ELSE LET lo == CHOOSE r \in rows : \A t \in rows : ~StrLess(t.path, r.path)
         IN <<lo>> \o OrderByPath(rows \ {lo})

\* LIMIT n
Limit(seq, n) == SubSeq(seq, 1, IF Len(seq) < n THEN Len(seq) ELSE n)

\* getProperties: the properties of the given lower-case paths, by path
getProperties(m, lowerCasePaths) ==
    LET entities == {r \in m : r.path \in lowerCasePaths}
    IN [ path \in {r.path : r \in entities} |->
            CHOOSE pm \in PropertyMaps({r \in entities : r.path = path}) : TRUE ]

\* the listing query with "path > ?" weakened to "path >= ?"
ListFilesWhereCursorInclusive(r, folderPath, paging, options) ==
    /\ IF options.Recursive
       THEN Like(ToLower(r.parent_folder_path), Sprintf2(ToLower(folderPath), <<Ascii.pct>>))
       ELSE ToLower(r.parent_folder_path) = ToLower(folderPath)
    /\ ~Like(ToLower(r.path), Sprintf3(<<Ascii.pct>>, Delimiter, directoryMarker))
    /\ \A prefix \in options.PathFilters :
           Like(ToLower(r.path), Sprintf2(ToLower(prefix), <<Ascii.pct>>))
    /\ (paging.After # <<>> => ~StrLess(r.path, paging.After))

\* the listing query with the non-recursive branch lost: always the LIKE
ListFilesWhereAlwaysRecursive(r, folderPath, paging, options) ==
    /\ Like(ToLower(r.parent_folder_path), Sprintf2(ToLower(folderPath), <<Ascii.pct>>))
    /\ ~Like(ToLower(r.path), Sprintf3(<<Ascii.pct>>, Delimiter, directoryMarker))
    /\ \A prefix \in options.PathFilters :
           Like(ToLower(r.path), Sprintf2(ToLower(prefix), <<Ascii.pct>>))
    /\ (paging.After # <<>> => StrLess(paging.After, r.path))

\* the listing query with the marker pattern matched against path, not LOWER(path)
ListFilesWhereMarkerCaseSensitive(r, folderPath, paging, options) ==
    /\ IF options.Recursive
       THEN Like(ToLower(r.parent_folder_path), Sprintf2(ToLower(folderPath), <<Ascii.pct>>))
       ELSE ToLower(r.parent_folder_path) = ToLower(folderPath)
    /\ ~Like(r.path, Sprintf3(<<Ascii.pct>>, Delimiter, directoryMarker))
    /\ \A prefix \in options.PathFilters :
           Like(ToLower(r.path), Sprintf2(ToLower(prefix), <<Ascii.pct>>))
    /\ (paging.After # <<>> => StrLess(paging.After, r.path))

\* the listing query with the loop over the allowed prefixes lost
ListFilesWhereNoFilters(r, folderPath, paging, options) ==
    /\ IF options.Recursive
       THEN Like(ToLower(r.parent_folder_path), Sprintf2(ToLower(folderPath), <<Ascii.pct>>))
       ELSE ToLower(r.parent_folder_path) = ToLower(folderPath)
    /\ ~Like(ToLower(r.path), Sprintf3(<<Ascii.pct>>, Delimiter, directoryMarker))
    /\ (paging.After # <<>> => StrLess(paging.After, r.path))

\* the listing query with the allowed prefixes joined by OR: one is enough
ListFilesWhereAnyPrefix(r, folderPath, paging, options) ==
    /\ IF options.Recursive
       THEN Like(ToLower(r.parent_folder_path), Sprintf2(ToLower(folderPath), <<Ascii.pct>>))
       ELSE ToLower(r.parent_folder_path) = ToLower(folderPath)
    /\ ~Like(ToLower(r.path), Sprintf3(<<Ascii.pct>>, Delimiter, directoryMarker))
    /\ \/ options.PathFilters = {}
       \/ \E prefix \in options.PathFilters :
             Like(ToLower(r.path), Sprintf2(ToLower(prefix), <<Ascii.pct>>))
    /\ (paging.After # <<>> => StrLess(paging.After, r.path))

\* lines 227-246: the WHERE clause of the listing query
ListFilesWhere(r, folderPath, paging, options) ==
    /\ IF options.Recursive
       THEN Like(ToLower(r.parent_folder_path), Sprintf2(ToLower(folderPath), <<Ascii.pct>>))
       ELSE ToLower(r.parent_folder_path) = ToLower(folderPath)
    /\ ~Like(ToLower(r.path), Sprintf3(<<Ascii.pct>>, Delimiter, directoryMarker))
    /\ \A prefix \in options.PathFilters :
           Like(ToLower(r.path), Sprintf2(ToLower(prefix), <<Ascii.pct>>))
    /\ (paging.After # <<>> => StrLess(paging.After, r.path))

\* dbFileStorage.ListFiles: the response and the error.  fail: 1 the listing
\* query, 2 the property query
ListFiles(f, m, folderPath, paging, options, fail) ==
    LET pageSize == paging.First
        foundFiles == Limit(OrderByPath({r \in f : ListFilesWhere(r, folderPath, paging, options)}),
                            pageSize + 1)
        foundLength == IF Len(foundFiles) > pageSize THEN pageSize ELSE Len(foundFiles)
        lowerCasePaths == {ToLower(foundFiles[i].path) : i \in 1..foundLength}
        propertiesByLowerPath == getProperties(m, lowerCasePaths)
        Props(path) == IF ToLower(path) \in DOMAIN propertiesByLowerPath
                       THEN propertiesByLowerPath[ToLower(path)]
                       ELSE <<>>
        listed == [ i \in 1..foundLength |->
                      [ Name       |-> getName(foundFiles[i].path),
                        FullPath   |-> foundFiles[i].path,
                        Created    |-> foundFiles[i].created,
                        Properties |-> Props(foundFiles[i].path),
                        Modified   |-> foundFiles[i].updated,
                        Size       |-> foundFiles[i].size,
                        MimeType   |-> foundFiles[i].mime_type ] ]
        lastPath == IF Len(listed) > 0 THEN listed[Len(listed)].FullPath ELSE <<>>
    IN IF fail = 1 \/ fail = 2
       THEN [resp |-> [Files |-> <<>>, LastPath |-> <<>>, HasMore |-> FALSE, nil |-> TRUE],
             err |-> StorageFailure]
       ELSE [resp |-> [Files |-> listed, LastPath |-> lastPath,
                       HasMore |-> Len(foundFiles) = pageSize + 1, nil |-> FALSE],
             err |-> Nil]

----------------------------------------------------------------------------
(* ListFolders *)

\* lines 311-319: the WHERE clause of the folder query
ListFoldersWhere(r, parentFolderPath, options) ==
    /\ IF options.Recursive
       THEN StrLess(ToLower(parentFolderPath), ToLower(r.parent_folder_path))
       ELSE ToLower(r.parent_folder_path) = ToLower(parentFolderPath)
    /\ \A prefix \in options.PathFilters :
           Like(ToLower(r.parent_folder_path), Sprintf2(ToLower(prefix), <<Ascii.pct>>))

\* lines 332-348: the inner loop over the segments of one parent path, from
\* parts[j] (Go's index j, parts[j + 1] here) on
RECURSIVE ancestors(_, _, _, _, _)
ancestors(parts, j, acc0, st, parentFolderPath) ==
    LET acc == Sprintf3(acc0, Delimiter, parts[j + 1])
        emit == acc \notin st.mem /\ Len(acc) > Len(parentFolderPath)
        st1 == [ mem     |-> st.mem \cup {acc},
                 folders |-> IF emit
                             THEN Append(st.folders, [Name |-> getName(acc), FullPath |-> acc])
                             ELSE st.folders ]
    IN IF j + 1 >= Len(parts) THEN st1
       ELSE ancestors(parts, j + 1, acc, st1, parentFolderPath)

\* lines 328-349: the outer loop over the parent paths found; parts[1] of a
\* path without delimiter is out of range and the call panics
RECURSIVE foldersOf(_, _, _)
foldersOf(foundPaths, st, parentFolderPath) ==
    IF foundPaths = <<>> THEN [folders |-> st.folders, err |-> Nil]
    ELSE LET parts == Split(Head(foundPaths))
         IN IF Len(parts) < 2 THEN [folders |-> <<>>, err |-> Panic]
            ELSE foldersOf(Tail(foundPaths),
                           ancestors(parts, 1, parts[1], st, parentFolderPath),
                           parentFolderPath)

\* dbFileStorage.ListFolders: the folders and the error.  fail: 1 the query
ListFolders(f, parentFolderPath, options, fail) ==
    LET foundPaths ==
            SortStrings({r.parent_folder_path : r \in {t \in f : ListFoldersWhere(t, parentFolderPath, options)}})
    IN IF fail = 1 THEN [folders |-> <<>>, err |-> StorageFailure]
       ELSE foldersOf(foundPaths, [mem |-> {}, folders |-> <<>>], parentFolderPath)

----------------------------------------------------------------------------
(* The path filter of the storage NewDbStorage returns *)

\* wrapper.go (not in src/): a path is allowed when the storage has no
\* prefixes or the path starts with one of them, compared in lower case
isAllowed(pathFilters, path) ==
    pathFilters = {} \/ \E prefix \in pathFilters : IsPrefix(ToLower(prefix), ToLower(path))

\* wrapper.go (not in src/): Get on a path that is not allowed is Get on a
\* path that does not exist
WrapperGet(pathFilters, f, m, filePath, fail) ==
    IF isAllowed(pathFilters, filePath)
    THEN Get(f, m, filePath, fail)
    ELSE {[result |-> NoFile, err |-> Nil]}

\* wrapper.go (not in src/): Delete on a path that is not allowed does nothing
WrapperDelete(pathFilters, f, m, filePath, fail) ==
    IF isAllowed(pathFilters, filePath)
    THEN Delete(f, m, filePath, fail)
    ELSE [files |-> f, meta |-> m, err |-> Nil]

----------------------------------------------------------------------------
(* Calls.  Each action is one call of the storage, from its entry to its    *)
(* return; last records the call and what it returned.                      *)

NoCall == [op |-> "none", in |-> <<>>, out |-> <<>>, err |-> Nil]

Idle == [active |-> FALSE]

Quiet == UNCHANGED <<pc, loc, history>>

\* the path of the directory marker of a folder
MarkerPath(folderPath) == Sprintf3(folderPath, Delimiter, directoryMarker)

CallUpsert(cmd, now, fail, order) ==
    /\ \E o \in Upsert(files, meta, cmd, now, fail, order) :
          /\ files' = o.files
          /\ meta' = o.meta
          /\ last' = [op |-> "Upsert", in |-> [cmd |-> cmd, fail |-> fail],
                      out |-> <<>>, err |-> o.err]
    /\ clock' = now
    /\ listing' = Idle
    /\ Quiet

CallGet(pathFilters, filePath, fail) ==
    /\ \E o \in WrapperGet(pathFilters, files, meta, filePath, fail) :
          last' = [op |-> "Get",
                   in |-> [filePath |-> filePath, pathFilters |-> pathFilters, fail |-> fail],
                   out |-> o.result, err |-> o.err]
    /\ listing' = Idle
    /\ UNCHANGED <<files, meta, clock>>
    /\ Quiet

CallDelete(pathFilters, filePath, fail) ==
    /\ LET o == WrapperDelete(pathFilters, files, meta, filePath, fail)
       IN /\ files' = o.files
          /\ meta' = o.meta
          /\ last' = [op |-> "Delete",
                      in |-> [filePath |-> filePath, pathFilters |-> pathFilters, fail |-> fail],
                      out |-> <<>>, err |-> o.err]
    /\ listing' = Idle
    /\ UNCHANGED clock
    /\ Quiet

CallCreateFolder(parentFolderPath, folderName, now, fail) ==
    /\ LET o == CreateFolder(files, parentFolderPath, folderName, now, fail)
           exists == WhereLowerPath(files, MarkerPath(Sprintf3(parentFolderPath, Delimiter,
                                                             folderName))) # {}
       IN /\ files' = o.files
          /\ last' = [op |-> "CreateFolder",
                      in |-> [parentFolderPath |-> parentFolderPath,
                              folderName |-> folderName, fail |-> fail],
                      out |-> [exists |-> exists], err |-> o.err]
    /\ clock' = now
    /\ listing' = Idle
    /\ UNCHANGED meta
    /\ Quiet

CallDeleteFolder(folderPath, fail) ==
    /\ LET o == DeleteFolder(files, folderPath, fail)
           exists == WhereLowerPath(files, MarkerPath(folderPath)) # {}
       IN /\ files' = o.files
          /\ last' = [op |-> "DeleteFolder",
                      in |-> [folderPath |-> folderPath, fail |-> fail],
                      out |-> [exists |-> exists], err |-> o.err]
    /\ listing' = Idle
    /\ UNCHANGED <<meta, clock>>
    /\ Quiet

\* a first page: ListFiles with no cursor, by a client that will page on
CallListFiles(folderPath, first, options) ==
    /\ LET paging == [First |-> first, After |-> <<>>]
           o == ListFiles(files, meta, folderPath, paging, options, 0)
       IN /\ listing' = [active |-> TRUE, folderPath |-> folderPath, options |-> options,
                         paging |-> paging, pages |-> <<o.resp>>]
          /\ last' = [op |-> "ListFiles", in |-> <<>>, out |-> <<>>, err |-> o.err]
    /\ UNCHANGED <<files, meta, clock>>
    /\ Quiet

\* the next page: ListFiles with after = the lastPath of the previous page
CallListFilesNext ==
    /\ listing.active
    /\ listing.pages[Len(listing.pages)].HasMore
    /\ LET paging == [First |-> listing.paging.First,
                      After |-> listing.pages[Len(listing.pages)].LastPath]
           o == ListFiles(files, meta, listing.folderPath, paging, listing.options, 0)
       IN /\ listing' = [listing EXCEPT !.paging = paging, !.pages = Append(@, o.resp)]
          /\ last' = [op |-> "ListFiles", in |-> <<>>, out |-> <<>>, err |-> o.err]
    /\ UNCHANGED <<files, meta, clock>>
    /\ Quiet

CallListFolders(parentFolderPath, options, fail) ==
    /\ LET o == ListFolders(files, parentFolderPath, options, fail)
       IN last' = [op |-> "ListFolders",
                   in |-> [parentFolderPath |-> parentFolderPath, options |-> options,
                           fail |-> fail],
                   out |-> o.folders, err |-> o.err]
    /\ listing' = Idle
    /\ UNCHANGED <<files, meta, clock>>
    /\ Quiet

----------------------------------------------------------------------------
(* Spec: calls on single files, with the failures the store may report *)

MaxTime == 3

p_x1 == <<Ascii.x, Ascii.slash, Ascii.one>>                             \* "x/1"

p_X1 == <<Ascii.X, Ascii.slash, Ascii.one>>                             \* "X/1"

p_root_x == <<Ascii.slash, Ascii.x>>                                    \* "/x"

p_root_x_marker == Sprintf3(p_root_x, Delimiter, directoryMarker)       \* "/x/.m"

p_root_y == <<Ascii.slash, Ascii.y>>                                    \* "/y"

FilePaths == {p_x1, p_X1, p_root_x_marker}

FileContents ==
    { [present |-> FALSE, bytes |-> <<>>],
      [present |-> TRUE, bytes |-> <<>>],
      [present |-> TRUE, bytes |-> <<7>>],
      [present |-> TRUE, bytes |-> <<8, 9>>] }

MimeTypes == {"", "text"}

PropertySets == {<<>>, [k1 |-> "v1"], [k1 |-> ""], [k1 |-> "v2", k2 |-> "v1"]}

Commands ==
    [Path : FilePaths, Contents : FileContents, MimeType : MimeTypes, Properties : PropertySets]

FilterSets == {{}, {<<Ascii.x, Ascii.slash>>}}

Init ==
    /\ files = {}
    /\ meta = {}
    /\ clock = 1
    /\ last = NoCall
    /\ listing = Idle
    /\ pc = <<>>
    /\ loc = <<>>
    /\ history = {}

Next ==
    \/ /\ clock < MaxTime
       /\ \E cmd \in Commands :
            \E order \in Orderings(DOMAIN cmd.Properties) :
              \E fail \in 0..(2 + Len(order)) : CallUpsert(cmd, clock + 1, fail, order)
    \/ \E pathFilters \in FilterSets, filePath \in FilePaths, fail \in 0..2 :
          CallGet(pathFilters, filePath, fail)
    \/ \E pathFilters \in FilterSets, filePath \in FilePaths, fail \in 0..3 :
          CallDelete(pathFilters, filePath, fail)
    \/ /\ clock < MaxTime
       /\ \E folderName \in {<<Ascii.x>>, <<Ascii.X>>}, fail \in 0..2 :
            CallCreateFolder(<<>>, folderName, clock + 1, fail)
    \/ \E fail \in 0..2 : CallDeleteFolder(p_root_x, fail)

Spec == Init /\ [][Next]_vars

----------------------------------------------------------------------------
(* SpecConc: two sessions call the storage at the same time.  A step is one *)
(* round trip to the store; a session that is not transactional commits    *)
(* each statement as it runs, the transaction of Upsert commits at its end. *)

Sessions == {"s1", "s2"}

ConcPaths == {p_x1, p_X1}

ConcCommands ==
    [ Path : ConcPaths,
      Contents : {[present |-> TRUE, bytes |-> <<7>>], [present |-> TRUE, bytes |-> <<8, 9>>]},
      MimeType : {"text"},
      Properties : {[k1 |-> "v1"], [k1 |-> "v2"]} ]

\* the rows of one path: what a reader of that path can be given
Version(f, m, path) == [rows |-> WhereLowerPath(f, path), props |-> WhereMetaPath(m, path)]

Free(s) == pc[s] \in {"idle", "returned"}

Returns(s, call) ==
    /\ pc' = [pc EXCEPT ![s] = "returned"]
    /\ loc' = [loc EXCEPT ![s] = call]

Commits == history' = history \cup {Version(files', meta', p_x1)}

\* Get, line 69: the file lookup
GetLookup(s, filePath) ==
    /\ Free(s)
    /\ LET found == WhereLowerPath(files, filePath)
       IN IF found = {}
          THEN Returns(s, [op |-> "Get", filePath |-> filePath, result |-> NoFile, err |-> Nil])
          ELSE \E table \in found :
                  /\ pc' = [pc EXCEPT ![s] = "Get:meta"]
                  /\ loc' = [loc EXCEPT ![s] = [op |-> "Get", filePath |-> filePath,
                                                table |-> table]]
    /\ UNCHANGED <<files, meta, clock, last, listing, history>>

\* Get, lines 74-97: the property query and the result
GetMeta(s) ==
    /\ pc[s] = "Get:meta"
    /\ \E pm \in PropertyMaps(WhereMetaPath(meta, loc[s].filePath)) :
          Returns(s, [op |-> "Get", filePath |-> loc[s].filePath,
                      result |-> MakeFile(loc[s].table, pm), err |-> Nil])
    /\ UNCHANGED <<files, meta, clock, last, listing, history>>

\* Delete, line 106: the file lookup
DeleteLookup(s, filePath) ==
    /\ Free(s)
    /\ IF WhereLowerPath(files, filePath) = {}
       THEN Returns(s, [op |-> "Delete", filePath |-> filePath, err |-> Nil])
       ELSE /\ pc' = [pc EXCEPT ![s] = "Delete:file"]
            /\ loc' = [loc EXCEPT ![s] = [op |-> "Delete", filePath |-> filePath]]
    /\ UNCHANGED <<files, meta, clock, last, listing, history>>

\* Delete, line 111: the file row is deleted, and the statement committed
DeleteFile(s) ==
    /\ pc[s] = "Delete:file"
    /\ files' = files \ WhereLowerPath(files, loc[s].filePath)
    /\ pc' = [pc EXCEPT ![s] = "Delete:meta"]
    /\ UNCHANGED <<meta, clock, last, listing, loc>>
    /\ Commits

\* Delete, line 118: the property rows are deleted
DeleteMeta(s) ==
    /\ pc[s] = "Delete:meta"
    /\ meta' = meta \ WhereMetaPath(meta, loc[s].filePath)
    /\ Returns(s, [op |-> "Delete", filePath |-> loc[s].filePath, err |-> Nil])
    /\ UNCHANGED <<files, clock, last, listing>>
    /\ Commits

\* Upsert, lines 130-136: the clock is read, the transaction begins and
\* looks the file up
UpsertLookup(s, cmd) ==
    /\ Free(s)
    /\ clock' = clock + 1
    /\ LET found == WhereLowerPath(files, cmd.Path)
       IN \/ /\ found = {}
             /\ loc' = [loc EXCEPT ![s] = [op |-> "Upsert", cmd |-> cmd, now |-> clock + 1,
                                           exists |-> FALSE, existing |-> <<>>]]
          \/ \E existing \in found :
                loc' = [loc EXCEPT ![s] = [op |-> "Upsert", cmd |-> cmd, now |-> clock + 1,
                                           exists |-> TRUE, existing |-> existing]]
    /\ pc' = [pc EXCEPT ![s] = "Upsert:write"]
    /\ UNCHANGED <<files, meta, last, listing, history>>

\* Upsert, lines 138-180: the file row and the properties are written and
\* the transaction commits, all at once for the other session
UpsertCommit(s) ==
    /\ pc[s] = "Upsert:write"
    /\ LET cmd == loc[s].cmd
           order == CHOOSE o \in Orderings(DOMAIN cmd.Properties) : TRUE
       IN /\ files' = writeFile(files, cmd, loc[s].now, loc[s].exists, loc[s].existing)
          /\ meta' = upsertProperties(meta, loc[s].now, cmd, order, 0).meta
          /\ Returns(s, [op |-> "Upsert", cmd |-> cmd, err |-> Nil])
    /\ UNCHANGED <<clock, last, listing>>
    /\ Commits

\* CreateFolder, lines 358-367: the clock is read and the marker looked up
CreateFolderLookup(s, parentFolderPath, folderName) ==
    /\ Free(s)
    /\ clock' = clock + 1
    /\ LET directoryMarkerParentPath == Sprintf3(parentFolderPath, Delimiter, folderName)
           directoryMarkerPath == Sprintf3(directoryMarkerParentPath, Delimiter, directoryMarker)
           call == [op |-> "CreateFolder", parentFolderPath |-> parentFolderPath,
                    folderName |-> folderName, now |-> clock + 1]
       IN IF WhereLowerPath(files, directoryMarkerPath) # {}
          THEN Returns(s, call @@ [err |-> Nil])
          ELSE /\ pc' = [pc EXCEPT ![s] = "CreateFolder:insert"]
               /\ loc' = [loc EXCEPT ![s] = call]
    /\ UNCHANGED <<files, meta, last, listing, history>>

\* CreateFolder, lines 373-381: the marker row is inserted
CreateFolderInsert(s) ==
    /\ pc[s] = "CreateFolder:insert"
    /\ files' = CreateFolder({}, loc[s].parentFolderPath, loc[s].folderName, loc[s].now, 0).files
                   \cup files
    /\ Returns(s, loc[s] @@ [err |-> Nil])
    /\ UNCHANGED <<meta, clock, last, listing, history>>

InitConc ==
    /\ files = {}
    /\ meta = {}
    /\ clock = 1
    /\ last = NoCall
    /\ listing = Idle
    /\ pc = [s \in Sessions |-> "idle"]
    /\ loc = [s \in Sessions |-> <<>>]
    /\ history = {Version({}, {}, p_x1)}

NextConc ==
    \E s \in Sessions :
       \/ \E filePath \in ConcPaths : GetLookup(s, filePath)
       \/ GetMeta(s)
       \/ \E filePath \in ConcPaths : DeleteLookup(s, filePath)
       \/ DeleteFile(s)
       \/ DeleteMeta(s)
       \/ clock < MaxTime /\ \E cmd \in ConcCommands : UpsertLookup(s, cmd)
       \/ UpsertCommit(s)
       \/ /\ clock < MaxTime
          /\ \E folderName \in {<<Ascii.x>>, <<Ascii.X>>} : CreateFolderLookup(s, <<>>, folderName)
       \/ CreateFolderInsert(s)

SpecConc == InitConc /\ [][NextConc]_vars

----------------------------------------------------------------------------
(* Claims checked under Spec *)

\* C1: a successful Upsert(p, contents = c) followed immediately by Get(p)
\* returns a file whose contents are c and whose size is len(c), whatever
\* was stored at p before.
C1_UpsertThenGet ==
    [][ ( /\ last.op = "Upsert" /\ last.err = Nil /\ last.in.cmd.Contents.present
          /\ last'.op = "Get" /\ last'.in.filePath = last.in.cmd.Path
          /\ last'.in.pathFilters = {} /\ last'.in.fail = 0 )
        => ( /\ last'.err = Nil
             /\ last'.out.found
             /\ last'.out.Contents = last.in.cmd.Contents.bytes
             /\ last'.out.Size = Len(last.in.cmd.Contents.bytes) ) ]_vars

\* C2: when Delete(p) has returned, with or without an error, it is never
\* the case that the file row of p is gone while property rows of p remain.
C2_DeleteAtomic ==
    last.op = "Delete" =>
        ~( /\ WhereLowerPath(files, last.in.filePath) = {}
           /\ WhereMetaPath(meta, last.in.filePath) # {} )

\* C3: an Upsert in which the upsert of a property fails returns the error
\* and leaves both tables exactly as they were before the call; so does
\* every other Upsert that returns an error.
C3_UpsertRollsBack ==
    [][ /\ (last'.op = "Upsert" /\ last'.in.fail > 2) => last'.err = StorageFailure
        /\ (last'.op = "Upsert" /\ last'.err # Nil) => (files' = files /\ meta' = meta)
      ]_vars

\* C3 witness: the upsert of the second property failed, after the file row
\* had been written and the first property upserted, on a path with a file
C3_Witness ==
    /\ last.op = "Upsert" /\ last.in.fail = 4 /\ last.err = StorageFailure
    /\ WhereLowerPath(files, last.in.cmd.Path) # {}
    /\ last.in.cmd.Contents.present

\* C11: Delete(p) on a path without file row returns success and changes
\* neither table; a Delete(p) that follows a successful Delete(p) returns
\* success and changes nothing, so twice is once.  (Calls the store serves
\* without failure.)
C11_DeleteIdempotent ==
    [][ (last'.op = "Delete" /\ last'.in.fail = 0) =>
          /\ last'.err = Nil
          /\ WhereLowerPath(files, last'.in.filePath) = {}
                => (files' = files /\ meta' = meta)
          /\ ( /\ last.op = "Delete" /\ last.in.fail = 0
               /\ last.in.filePath = last'.in.filePath
               /\ last.in.pathFilters = last'.in.pathFilters )
                => (files' = files /\ meta' = meta)
          /\ WhereLowerPath(files', last'.in.filePath) # {}
                => ~isAllowed(last'.in.pathFilters, last'.in.filePath)
      ]_vars

\* C11 witness: Delete returned from a path that has no file row but still
\* has property rows, which it left alone
C11_Witness ==
    /\ last.op = "Delete" /\ last.in.fail = 0 /\ last.in.pathFilters = {}
    /\ last.err = Nil
    /\ WhereLowerPath(files, last.in.filePath) = {}
    /\ WhereMetaPath(meta, last.in.filePath) # {}

\* C12: the property table holds at most one row per (lower-case path, key),
\* and Get(p) right after a successful Upsert of p reports, for each key the
\* Upsert supplied, the value it supplied.
C12_PropertyRoundTrip ==
    [][ /\ \A r1, r2 \in meta' : (r1.path = r2.path /\ r1.key = r2.key) => r1 = r2
        /\ ( /\ last.op = "Upsert" /\ last.err = Nil
             /\ last'.op = "Get" /\ last'.in.filePath = last.in.cmd.Path
             /\ last'.in.pathFilters = {} /\ last'.in.fail = 0 )
           => /\ last'.out.found
              /\ \A k \in DOMAIN last.in.cmd.Properties :
                    /\ k \in DOMAIN last'.out.Properties
                    /\ last'.out.Properties[k] = last.in.cmd.Properties[k]
      ]_vars

\* C13: a call in which the store failed a statement returns an error; in
\* particular Get and Delete return an error when their file lookup fails.
C13_FailureSurfaced ==
    ( /\ last.op \in {"Get", "Delete"}
      /\ last.in.fail = 1
      /\ isAllowed(last.in.pathFilters, last.in.filePath) )
    => last.err # Nil

\* C18: CreateFolder(P, N) returns success and changes nothing when the
\* marker of P/N exists in any casing; otherwise it inserts one file row at
\* the marker path, with empty contents, size 0 and parent folder path P/N;
\* a second CreateFolder(P, N) changes nothing.  No property row changes.
C18_CreateFolderIdempotent ==
    [][ (last'.op = "CreateFolder" /\ last'.in.fail = 0) =>
          LET folder == Sprintf3(last'.in.parentFolderPath, Delimiter, last'.in.folderName)
              marker == WhereLowerPath(files, MarkerPath(folder))
          IN /\ last'.err = Nil
             /\ meta' = meta
             /\ marker # {} => files' = files
             /\ marker = {} =>
                   \E r \in files' :
                      /\ r \notin files /\ files' = files \cup {r}
                      /\ r.path = MarkerPath(folder)
                      /\ r.parent_folder_path = folder
                      /\ r.contents = <<>> /\ r.size = 0
                      /\ r.created = clock' /\ r.updated = clock'
             /\ CreateFolder(files', last'.in.parentFolderPath, last'.in.folderName,
                             clock' + 1, 0) = [files |-> files', err |-> Nil]
      ]_vars

\* C18 witness: CreateFolder("", "X") found the marker /x/.m, stored in
\* lower case, and returned success
C18_Witness ==
    /\ last.op = "CreateFolder" /\ last.in.fail = 0 /\ last.in.folderName = <<Ascii.X>>
    /\ last.out.exists /\ last.err = Nil
    /\ \E r \in files : r.path = p_root_x_marker
    /\ Cardinality(WhereLowerPath(files, p_root_x_marker)) = 1

\* C19: a successful Upsert without contents on a path that has a file row
\* changes, in the file table, the updated timestamp of that row and nothing
\* else, whatever mime type the command carries; no row is added.
C19_UpsertWithoutContents ==
    [][ ( /\ last'.op = "Upsert" /\ last'.err = Nil
          /\ ~last'.in.cmd.Contents.present
          /\ WhereLowerPath(files, last'.in.cmd.Path) # {} )
        => \E r \in WhereLowerPath(files, last'.in.cmd.Path) :
              files' = (files \ {r}) \cup {[r EXCEPT !.updated = clock']}
      ]_vars

\* C19 witness: the last call was an Upsert without contents and with mime
\* type "text" on a file stored earlier with another mime type and contents
C19_Witness ==
    /\ last.op = "Upsert" /\ last.err = Nil
    /\ ~last.in.cmd.Contents.present /\ last.in.cmd.MimeType = "text"
    /\ \E r \in WhereLowerPath(files, last.in.cmd.Path) :
          /\ r.updated = clock /\ r.created < r.updated
          /\ r.mime_type = "" /\ r.contents = <<7>> /\ r.size = 1
          /\ r.path # last.in.cmd.Path

\* every property row has the lower-case path of some file row
NoOrphanProperties(f, m) == \A r \in m : \E t \in f : ToLower(t.path) = r.path

\* C21: no property row outlives its file: a call of Upsert, Delete,
\* CreateFolder or DeleteFolder that returns success, made in a state where
\* every property row has a file row, leaves a state where every property
\* row has a file row.
C21_NoOrphanProperties ==
    [][ ( /\ NoOrphanProperties(files, meta)
          /\ last'.op \in {"Upsert", "Delete", "CreateFolder", "DeleteFolder"}
          /\ last'.err = Nil )
        => NoOrphanProperties(files', meta') ]_vars

----------------------------------------------------------------------------
(* SpecList: a store of several files and folders, listed page by page *)

MaxFiles == 3

MaxPageSize == 2

p_x == <<Ascii.x>>                                                      \* "x"

p_X == <<Ascii.X>>                                                      \* "X"

p_y == <<Ascii.y>>                                                      \* "y"

p_xy == <<Ascii.x, Ascii.slash, Ascii.y>>                               \* "x/y"

p_ab == <<Ascii.a, Ascii.slash, Ascii.b>>                               \* "a/b"

p_xy2 == <<Ascii.x, Ascii.slash, Ascii.y, Ascii.slash, Ascii.two>>      \* "x/y/2"

p_x21 == <<Ascii.x, Ascii.two, Ascii.slash, Ascii.one>>                 \* "x2/1"

p_abcf ==                                                               \* "a/b/c/f"
    <<Ascii.a, Ascii.slash, Ascii.b, Ascii.slash, Ascii.c, Ascii.slash, Ascii.f>>

p_yz1 == <<Ascii.y, Ascii.slash, Ascii.z, Ascii.slash, Ascii.one>>      \* "y/z/1"

p_x_MARKER == <<Ascii.x, Ascii.slash, Ascii.dot, Ascii.M>>              \* "x/.M"

p_x_slash == <<Ascii.x, Ascii.slash>>                                   \* "x/"

p_xy_slash == <<Ascii.x, Ascii.slash, Ascii.y, Ascii.slash>>            \* "x/y/"

ListPaths == {p_x1, p_X1, p_xy2, p_x21, p_yz1, p_x_MARKER}

p_ab_dash_1 ==                                                          \* "a/b-/1"
    <<Ascii.a, Ascii.slash, Ascii.b, Ascii.dash, Ascii.slash, Ascii.one>>

FolderFilePaths == ListPaths \cup {p_abcf, p_ab_dash_1}

ListCommand(path) ==
    [ Path |-> path, Contents |-> [present |-> TRUE, bytes |-> <<7>>], MimeType |-> "text",
      Properties |-> IF path = p_x1 THEN [k1 |-> "v1"] ELSE <<>> ]

ListFolderPaths == {<<>>, p_x, p_X, p_xy}

ListFilterSets == {{}, {p_x_slash, p_xy_slash}}

ListOptions == [Recursive : BOOLEAN, PathFilters : ListFilterSets]

\* the insert of a new row is left out once the table holds MaxFiles rows
RoomFor(path) == Cardinality(files) < MaxFiles \/ WhereLowerPath(files, path) # {}

\* the calls that change the store; every call is made at one clock reading
ListStoreCalls(paths) ==
    \/ \E path \in paths :
          /\ RoomFor(path)
          /\ CallUpsert(ListCommand(path), clock, 0,
                        CHOOSE o \in Orderings(DOMAIN ListCommand(path).Properties) : TRUE)
    \/ \E parentFolderPath \in {<<>>, p_x} :
          /\ RoomFor(MarkerPath(Sprintf3(parentFolderPath, Delimiter, p_y)))
          /\ CallCreateFolder(parentFolderPath, p_y, clock, 0)
    \/ \E folderPath \in {p_root_y, p_xy} : CallDeleteFolder(folderPath, 0)

NextList ==
    \/ ListStoreCalls(ListPaths)
    \/ \E pathFilters \in {{}, {p_x_slash}}, filePath \in ListPaths :
          CallGet(pathFilters, filePath, 0)
    \/ \E pathFilters \in {{}, {p_x_slash}}, filePath \in ListPaths :
          CallDelete(pathFilters, filePath, 0)
    \/ \E folderPath \in ListFolderPaths, first \in 1..MaxPageSize, options \in ListOptions :
          CallListFiles(folderPath, first, options)
    \/ CallListFilesNext

SpecList == Init /\ [][NextList]_vars

----------------------------------------------------------------------------
(* SpecFolders: the folders derived from a store of several files *)

FolderParents == {<<>>, p_x, p_ab, p_xy}

FolderOptions == [Recursive : BOOLEAN, PathFilters : {{}, {p_x_slash}}]

NextFolders ==
    \/ ListStoreCalls(FolderFilePaths)
    \/ \E filePath \in FolderFilePaths : CallDelete({}, filePath, 0)
    \/ \E parentFolderPath \in FolderParents, options \in FolderOptions :
          CallListFolders(parentFolderPath, options, 0)

SpecFolders == Init /\ [][NextFolders]_vars

----------------------------------------------------------------------------
(* Claims checked under SpecList *)

\* a path that ends with the delimiter and the marker segment, in any casing
IsMarkerPath(path) ==
    LET suffix == Delimiter \o directoryMarker
    IN /\ Len(path) >= Len(suffix)
       /\ ToLower(SubSeq(path, Len(path) - Len(suffix) + 1, Len(path))) = ToLower(suffix)

\* the listing predicate in the words of the specification
Matches(r, folderPath, options) ==
    /\ IF options.Recursive
       THEN IsPrefix(ToLower(folderPath), ToLower(r.parent_folder_path))
       ELSE ToLower(r.parent_folder_path) = ToLower(folderPath)
    /\ ~IsMarkerPath(r.path)
    /\ \A prefix \in options.PathFilters : IsPrefix(ToLower(prefix), ToLower(r.path))

PagePaths(resp) == [i \in 1..Len(resp.Files) |-> resp.Files[i].FullPath]

\* the paths of the first n pages, in the order returned
RECURSIVE PathsUpTo(_, _)
PathsUpTo(pages, n) ==
    IF n = 0 THEN <<>> ELSE PathsUpTo(pages, n - 1) \o PagePaths(pages[n])

ListedPaths == PathsUpTo(listing.pages, Len(listing.pages))

ListingComplete == listing.active /\ ~listing.pages[Len(listing.pages)].HasMore

\* C5: paging from no cursor, each page after the lastPath of the one
\* before, returns the matching files in ascending path order without gap or
\* repeat, at most pageSize a page, and hasMore is true exactly when a
\* matching file with a greater path remains.
C5_Pagination ==
    listing.active =>
        LET all == SortStrings({r.path : r \in {t \in files :
                                    Matches(t, listing.folderPath, listing.options)}})
        IN \A n \in 1..Len(listing.pages) :
              LET got == PathsUpTo(listing.pages, n)
                  page == listing.pages[n]
              IN /\ Len(page.Files) <= listing.paging.First
                 /\ Len(got) <= Len(all)
                 /\ got = SubSeq(all, 1, Len(got))
                 /\ page.HasMore <=> Len(got) < Len(all)
                 /\ page.LastPath = IF Len(page.Files) = 0 THEN <<>> ELSE got[Len(got)]

\* C5 witness: three matching files listed in two pages of size two
C5_Witness ==
    /\ ListingComplete
    /\ listing.paging.First = 2
    /\ Len(listing.pages) = 2
    /\ Len(listing.pages[1].Files) = 2 /\ listing.pages[1].HasMore
    /\ Len(listing.pages[2].Files) = 1

\* a path that starts with none of the allowed prefixes
Outside(pathFilters, path) ==
    \A prefix \in pathFilters : ~IsPrefix(ToLower(prefix), ToLower(path))

C9_ListingScope ==
    (ListingComplete /\ listing.options.PathFilters = {}) =>
        Range(ListedPaths)
          = {r.path : r \in {t \in files :
                /\ ~IsMarkerPath(t.path)
                /\ IF listing.options.Recursive
                   THEN IsPrefix(ToLower(listing.folderPath), ToLower(t.parent_folder_path))
                   ELSE ToLower(t.parent_folder_path) = ToLower(listing.folderPath)}}

\* C9 witness: "X" listed non-recursively while x/1 and x/y/2 are stored
C9_Witness ==
    /\ ListingComplete /\ listing.options.PathFilters = {} /\ ~listing.options.Recursive
    /\ listing.folderPath = p_X
    /\ WhereLowerPath(files, p_xy2) # {}
    /\ Range(ListedPaths) = {p_x1}

\* C10: no path returned by ListFiles is a directory marker.
C10_NoMarkerListed ==
    listing.active => \A i \in 1..Len(ListedPaths) : ~IsMarkerPath(ListedPaths[i])

\* C10 witness: x listed recursively, with files returned, while the store
\* holds the upper-case marker x/.M and the marker CreateFolder wrote
C10_Witness ==
    /\ listing.active /\ listing.folderPath = p_x /\ listing.options.Recursive
    /\ Len(ListedPaths) > 0
    /\ WhereLowerPath(files, p_x_MARKER) # {}
    /\ WhereLowerPath(files, MarkerPath(p_xy)) # {}

\* the paths ListFiles returns for the listed folder in one page that takes
\* them all, under the allowed prefixes S
ListedUnder(S) ==
    LET o == ListFiles(files, meta, listing.folderPath,
                       [First |-> Cardinality(files), After |-> <<>>],
                       [listing.options EXCEPT !.PathFilters = S], 0)
    IN Range(PagePaths(o.resp))

C17_DeleteFolderFrame ==
    [][ last'.op = "DeleteFolder" =>
          LET marker == WhereLowerPath(files, MarkerPath(last'.in.folderPath))
          IN /\ meta' = meta
             /\ files' \subseteq files
             /\ (files \ files') \subseteq marker
             /\ last'.in.fail = 0 =>
                   /\ last'.err = Nil
                   /\ files' = files \ marker
                   /\ Cardinality(marker) <= 1
      ]_vars

\* C17 witness: DeleteFolder(x/y) found and deleted the marker while the
\* file x/y/2 below the folder and property rows stay
C17_Witness ==
    /\ last.op = "DeleteFolder" /\ last.in.folderPath = p_xy
    /\ last.out.exists /\ last.err = Nil
    /\ WhereLowerPath(files, MarkerPath(p_xy)) = {}
    /\ WhereLowerPath(files, p_xy2) # {}
    /\ meta # {}

\* parent is the folder F or a folder below it, in lower case; every folder
\* is below the root ""
InOrBelow(F, parent) ==
    \/ F = <<>>
    \/ ToLower(parent) = ToLower(F)
    \/ IsPrefix(ToLower(Sprintf2(F, Delimiter)), ToLower(parent))

\* C20: a recursive ListFiles(F) returns only files whose parent folder is F
\* or a folder below F, and no file of a folder whose name only begins
\* with the characters of F.
C20_RecursiveOnlyBelow ==
    (listing.active /\ listing.options.Recursive) =>
        \A i \in 1..Len(ListedPaths) :
            \A r \in files :
                r.path = ListedPaths[i] => InOrBelow(listing.folderPath, r.parent_folder_path)

----------------------------------------------------------------------------
(* Claims checked under SpecFolders *)

\* every non-empty prefix, ending at a segment boundary, of the parent
\* folder path of a stored file
AncestorFolders(f) ==
    UNION { {Join(SubSeq(Split(r.parent_folder_path), 1, k)) :
                k \in 1..Len(Split(r.parent_folder_path))} : r \in f } \ {<<>>}

FolderPaths(folders) == [i \in 1..Len(folders) |-> folders[i].FullPath]

\* C7: recursive ListFolders on the root "" returns every ancestor folder
\* of every stored file, each exactly once.
C7_RootFolders ==
    ( /\ last.op = "ListFolders" /\ last.err = Nil
      /\ last.in.parentFolderPath = <<>>
      /\ last.in.options.Recursive /\ last.in.options.PathFilters = {} )
    => /\ Range(FolderPaths(last.out)) = AncestorFolders(files)
       /\ Len(last.out) = Cardinality(AncestorFolders(files))

\* folder is parent followed by the delimiter and at least one more segment
\* (below the root "": any folder)
StrictDescendant(parent, folder) ==
    IF parent = <<>> THEN folder # <<>>
    ELSE /\ IsPrefix(ToLower(parent \o Delimiter), ToLower(folder))
         /\ Len(folder) > Len(parent) + 1

\* C8: every folder ListFolders(P) returns is a strict descendant of P, and
\* no folder path is returned twice.
C8_OnlyDescendants ==
    (last.op = "ListFolders" /\ last.err = Nil) =>
        /\ \A i \in 1..Len(last.out) :
              StrictDescendant(last.in.parentFolderPath, last.out[i].FullPath)
        /\ \A i, j \in 1..Len(last.out) :
              last.out[i].FullPath = last.out[j].FullPath => i = j

\* C16: the folders ListFolders returns are in ascending order of their
\* full path.
C16_FoldersAscending ==
    (last.op = "ListFolders" /\ last.err = Nil) =>
        \A i, j \in 1..Len(last.out) :
            i < j => StrLess(last.out[i].FullPath, last.out[j].FullPath)

----------------------------------------------------------------------------
(* Claims checked under SpecConc *)

\* C4: the file a Get returns pairs a file row and a property map of one
\* committed version of the path, whatever Upsert or Delete runs meanwhile.
C4_GetSeesOneVersion ==
    \A s \in Sessions :
        (pc[s] = "returned" /\ loc[s].op = "Get" /\ loc[s].result.found) =>
            \E v \in history :
                \E table \in v.rows :
                    \E pm \in PropertyMaps(v.props) : loc[s].result = MakeFile(table, pm)

\* C14: whatever the interleaving of Upsert and CreateFolder calls, the file
\* table holds at most one row per lower-case path.
C14_OneRowPerPath ==
    \A r1, r2 \in files : ToLower(r1.path) = ToLower(r2.path) => r1 = r2

====
